---------------------------- MODULE Spec2Model ----------------------------
(***************************************************************************)
(* Leave approval system (src/index.jsx): the App component as a state     *)
(* machine.  The state is the component's React state (currentUser, users, *)
(* leaves, the leave form's fields, the message box), the wall clock read  *)
(* by Date.now(), and one history variable, lastCall, that records which   *)
(* handler ran last, with what arguments, and the ledger it ran against.   *)
(*                                                                         *)
(* Every handler runs to completion against the state of the last render   *)
(* and the effects that follow a render (the day count, lines 68-79) are   *)
(* part of the action that triggers them.  The fields of the login form    *)
(* (authUsername, authPassword, authRole) are only read by handleRegister  *)
(* and handleLogin and can be typed freely before either: they are the     *)
(* inputs of those two actions and are not kept as state.                  *)
(***************************************************************************)
EXTENDS Integers, Sequences, FiniteSets, TLC

VARIABLES
    currentUser,      \* the logged-in user object of users, or NoUser (null)
    users,            \* sequence of { username, password, role }
    leaves,           \* sequence of leave requests (the ledger)
    reason,           \* leave form: the reason selector
    otherReason,      \* leave form: the free text of "other"
    startDate,        \* leave form: a day, or NoDate for ''
    endDate,          \* leave form: a day, or NoDate for ''
    numberOfDays,     \* leave form: the day count the effect computed
    teacherToApprove, \* leave form: the chosen teacher, or ""
    messageBox,       \* { visible, title, message }
    now,              \* the wall clock when it was last read (milliseconds)
    lastCall,         \* history: the handler that ran last
    otherTab          \* a second page open on the same localStorage, if any

vars == << currentUser, users, leaves, reason, otherReason, startDate, endDate,
           numberOfDays, teacherToApprove, messageBox, now, lastCall,
           otherTab >>

formVars == << reason, otherReason, startDate, endDate, numberOfDays,
               teacherToApprove >>

---------------------------------------------------------------------------
(* Bounds of the model                                                     *)

\* the ledger's length when the decisions are explored
MaxLeaves == 2

\* the ledger's length when the drafts, or direct calls, are explored
MaxFewLeaves == 1

\* the days a draft may name
MaxDay == 2

---------------------------------------------------------------------------
(* Values                                                                  *)

Null == "<null>"

NoUser == [username |-> Null, password |-> Null, role |-> Null]

NoDate == 0

Roles == {"student", "teacher", "admin"}

ReasonOptions == {"sick", "casual", "vacation", "other"}

Actions == {"approve", "reject"}

ApproverRoles == {"teacher", "admin"}

Days == 1 .. MaxDay

MsPerDay == 1000 * 60 * 60 * 24

InitialMessageBox == [visible |-> FALSE, title |-> "", message |-> << >>]

\* no second page is open: the store holds what this page wrote last
OneTab == [open |-> FALSE]

NoCall == [op |-> "none", via |-> "none", ok |-> FALSE, id |-> 0,
           action |-> "", role |-> "", name |-> "", before |-> << >>]

---------------------------------------------------------------------------
(* Strings                                                                 *)

\* The characters of the texts the model types into the forms.
Chars(s) ==
    CASE s = ""      -> << >>
      [] s = " "     -> << " " >>
      [] s = "flu"   -> << "f", "l", "u" >>
      [] s = " flu " -> << " ", "f", "l", "u", " " >>
      [] s = "alice" -> << "a", "l", "i", "c", "e" >>
      [] s = "bob"   -> << "b", "o", "b" >>
      [] s = "Bob"   -> << "B", "o", "b" >>
      [] s = "BOB"   -> << "B", "O", "B" >>
      [] s = "dave"  -> << "d", "a", "v", "e" >>
      [] OTHER       -> << s >>

WhiteSpace == {" "}

\* s.trim(): the characters of s without its leading and trailing white space.
RECURSIVE TrimStart(_)
TrimStart(cs) ==
    IF cs # << >> /\ Head(cs) \in WhiteSpace THEN TrimStart(Tail(cs)) ELSE cs

RECURSIVE TrimEnd(_)
TrimEnd(cs) ==
    IF cs # << >> /\ cs[Len(cs)] \in WhiteSpace
    THEN TrimEnd(SubSeq(cs, 1, Len(cs) - 1))
    ELSE cs

Trim(s) == TrimEnd(TrimStart(Chars(s)))

\* !s for a string s
Falsy(s) == s = ""

\* the lower-case letter of a character
LowerChar(c) ==
    CASE c = "B" -> "b"
      [] c = "O" -> "o"
      [] OTHER   -> c

\* s.toLowerCase(), as the characters of the result
ToLowerCase(s) == [i \in DOMAIN Chars(s) |-> LowerChar(Chars(s)[i])]

\* The words of a status label.
Words(s) ==
    CASE s = "Pending"             -> << "Pending" >>
      [] s = "Approved by Teacher" -> << "Approved", "by", "Teacher" >>
      [] s = "Rejected by Teacher" -> << "Rejected", "by", "Teacher" >>
      [] s = "Approved by Admin"   -> << "Approved", "by", "Admin" >>
      [] s = "Rejected by Admin"   -> << "Rejected", "by", "Admin" >>
      [] OTHER                     -> << s >>

\* status.includes(label): label occurs in status.  The labels the filters
\* ask for are whole words, so that the occurrence is one of words.
Includes(status, label) ==
    LET w == Words(status)
        l == Words(label)
    IN  \E k \in 0 .. (Len(w) - Len(l)) : SubSeq(w, k + 1, k + Len(l)) = l

---------------------------------------------------------------------------
(* The day count (lines 68-79)                                             *)

Abs(x) == IF x < 0 THEN -x ELSE x

\* Math.ceil(a / b) for a >= 0, b > 0
Ceil(a, b) == (a + b - 1) \div b

\* new Date('YYYY-MM-DD'): UTC midnight of that day, in milliseconds
DateMs(d) == d * MsPerDay

\* DayCount without the + 1 that counts both the first and the last day
DayCountExclusive(start, end) ==
    IF start # NoDate /\ end # NoDate
    THEN Ceil(Abs(DateMs(end) - DateMs(start)), MsPerDay)
    ELSE 0

DayCount(start, end) ==
    IF start # NoDate /\ end # NoDate
    THEN Ceil(Abs(DateMs(end) - DateMs(start)), MsPerDay) + 1
    ELSE 0

---------------------------------------------------------------------------
(* Derived values of a render                                              *)

\* line 52
teachers == { users[i].username : i \in { j \in DOMAIN users : users[j].role = "teacher" } }

ShowMessageBox(title, message) ==
    [visible |-> TRUE, title |-> title, message |-> message]

\* FormVisible for whoever is logged in
FormVisibleAnyRole == currentUser # NoUser

\* lines 373, 459: the request form is rendered for students and teachers
FormVisible == currentUser # NoUser /\ currentUser.role \in {"student", "teacher"}

\* lines 480-482
MyRequests(l) == l.userName = currentUser.username

\* TeacherPending listing every pending request, whoever it is addressed to
TeacherPendingAnyPending(l) == Includes(l.status, "Pending")

\* lines 532-534
TeacherPending(l) ==
    /\ l.userRole = "student"
    /\ Includes(l.status, "Pending")
    /\ l.requestedToTeacher = currentUser.username

\* AdminPending without the eligibility test
AdminPendingAnyUndecided(l) ==
    /\ ~Includes(l.status, "Approved by Admin")
    /\ ~Includes(l.status, "Rejected by Admin")

\* AdminPending listing the teachers' requests only
AdminPendingTeachersOnly(l) ==
    /\ ~Includes(l.status, "Approved by Admin")
    /\ ~Includes(l.status, "Rejected by Admin")
    /\ l.userRole = "teacher"

\* lines 583-585
AdminPending(l) ==
    /\ ~Includes(l.status, "Approved by Admin")
    /\ ~Includes(l.status, "Rejected by Admin")
    /\ (l.userRole = "teacher" \/ l.teacherApproved)

---------------------------------------------------------------------------
(* Initial state: nothing in localStorage (lines 27-49, 222)               *)

Init ==
    /\ currentUser = NoUser
    /\ users = << >>
    /\ leaves = << >>
    /\ reason = "sick"
    /\ otherReason = ""
    /\ startDate = NoDate
    /\ endDate = NoDate
    /\ numberOfDays = 0
    /\ teacherToApprove = ""
    /\ messageBox = InitialMessageBox
    /\ now = 1
    /\ lastCall = NoCall
    /\ otherTab = OneTab

Call(op) == [NoCall EXCEPT !.op = op, !.via = "dashboard"]

---------------------------------------------------------------------------
(* Authentication (lines 84-135)                                           *)

\* UsernameTaken comparing the names as they are written
UsernameTakenCaseSensitive(authUsername) ==
    \E i \in DOMAIN users : users[i].username = authUsername

\* line 90
UsernameTaken(authUsername) ==
    \E i \in DOMAIN users :
        ToLowerCase(users[i].username) = ToLowerCase(authUsername)

HandleRegister(authUsername, authPassword, authRole) ==
    /\ currentUser = NoUser
    /\ IF Falsy(authUsername) \/ Falsy(authPassword) \/ Falsy(authRole)
       THEN /\ messageBox' = ShowMessageBox("Registration Error",
                   << "Please enter username, password, and select a role." >>)
            /\ users' = users
            /\ lastCall' = [Call("handleRegister") EXCEPT !.name = authUsername]
       ELSE IF UsernameTaken(authUsername)
       THEN /\ messageBox' = ShowMessageBox("Registration Error",
                   << "Username already exists. Please choose a different one." >>)
            /\ users' = users
            /\ lastCall' = [Call("handleRegister") EXCEPT !.name = authUsername]
       ELSE /\ users' = Append(users, [username |-> authUsername,
                                       password |-> authPassword,
                                       role |-> authRole])
            /\ messageBox' = ShowMessageBox("Success",
                   << "User \"", authUsername, "\" registered as a ", authRole,
                      ". You can now log in." >>)
            /\ lastCall' = [Call("handleRegister") EXCEPT
                               !.ok = TRUE, !.name = authUsername]
    /\ UNCHANGED << currentUser, leaves, formVars, now >>

\* users.find(...): the first user that matches
Matches(user, authUsername, authPassword) ==
    /\ ToLowerCase(user.username) = ToLowerCase(authUsername)
    /\ user.password = authPassword

FindUser(authUsername, authPassword) ==
    LET hits == { i \in DOMAIN users : Matches(users[i], authUsername, authPassword) }
    IN  IF hits = {} THEN NoUser
        ELSE users[CHOOSE i \in hits : \A j \in hits : i <= j]

HandleLogin(authUsername, authPassword) ==
    /\ currentUser = NoUser
    /\ IF Falsy(authUsername) \/ Falsy(authPassword)
       THEN /\ messageBox' = ShowMessageBox("Login Error",
                   << "Please enter both username and password." >>)
            /\ currentUser' = currentUser
            /\ lastCall' = Call("handleLogin")
       ELSE LET foundUser == FindUser(authUsername, authPassword)
            IN  IF foundUser # NoUser
                THEN /\ currentUser' = foundUser
                     /\ messageBox' = ShowMessageBox("Success",
                            << "Logged in as ", foundUser.username, " (",
                               foundUser.role, ")." >>)
                     /\ lastCall' = [Call("handleLogin") EXCEPT !.ok = TRUE]
                ELSE /\ messageBox' = ShowMessageBox("Login Error",
                            << "Invalid username or password." >>)
                     /\ currentUser' = currentUser
                     /\ lastCall' = Call("handleLogin")
    /\ UNCHANGED << users, leaves, formVars, now >>

ResetForm ==
    /\ reason' = "sick"
    /\ otherReason' = ""
    /\ startDate' = NoDate
    /\ endDate' = NoDate
    /\ numberOfDays' = 0
    /\ teacherToApprove' = ""

\* HandleLogout emptying the ledger as well
HandleLogoutClearing ==
    /\ currentUser # NoUser
    /\ currentUser' = NoUser
    /\ leaves' = << >>
    /\ ResetForm
    /\ messageBox' = ShowMessageBox("Logged Out",
           << "You have been successfully logged out." >>)
    /\ lastCall' = [Call("handleLogout") EXCEPT !.ok = TRUE]
    /\ UNCHANGED << users, now >>

HandleLogout ==
    /\ currentUser # NoUser
    /\ currentUser' = NoUser
    /\ ResetForm
    /\ messageBox' = ShowMessageBox("Logged Out",
           << "You have been successfully logged out." >>)
    /\ lastCall' = [Call("handleLogout") EXCEPT !.ok = TRUE]
    /\ UNCHANGED << users, leaves, now >>

---------------------------------------------------------------------------
(* The leave form's inputs (lines 378-446) and the day-count effect        *)

SetReason(r) ==
    /\ FormVisible
    /\ reason' = r
    /\ lastCall' = Call("input")
    /\ UNCHANGED << currentUser, users, leaves, otherReason, startDate, endDate,
                    numberOfDays, teacherToApprove, messageBox, now >>

\* the text input is rendered only while the selector is "other" (line 391)
SetOtherReason(t) ==
    /\ FormVisible
    /\ reason = "other"
    /\ otherReason' = t
    /\ lastCall' = Call("input")
    /\ UNCHANGED << currentUser, users, leaves, reason, startDate, endDate,
                    numberOfDays, teacherToApprove, messageBox, now >>

SetStartDate(d) ==
    /\ FormVisible
    /\ startDate' = d
    /\ numberOfDays' = DayCount(d, endDate)
    /\ lastCall' = Call("input")
    /\ UNCHANGED << currentUser, users, leaves, reason, otherReason, endDate,
                    teacherToApprove, messageBox, now >>

SetEndDate(d) ==
    /\ FormVisible
    /\ endDate' = d
    /\ numberOfDays' = DayCount(startDate, d)
    /\ lastCall' = Call("input")
    /\ UNCHANGED << currentUser, users, leaves, reason, otherReason, startDate,
                    teacherToApprove, messageBox, now >>

\* the options of the teacher selector (lines 441-444), rendered for students
TeacherOptions == {""} \cup teachers

SetTeacherToApprove(t) ==
    /\ currentUser # NoUser
    /\ currentUser.role = "student"
    /\ t \in TeacherOptions
    /\ teacherToApprove' = t
    /\ lastCall' = Call("input")
    /\ UNCHANGED << currentUser, users, leaves, reason, otherReason, startDate,
                    endDate, numberOfDays, messageBox, now >>

---------------------------------------------------------------------------
(* Submission (lines 140-186)                                              *)

\* NewLeave without the teachers' exemption from the teacher stage
NewLeaveNoExemption(newLeaveId, finalReason) ==
    [id                 |-> newLeaveId,
     userName           |-> currentUser.username,
     userRole           |-> currentUser.role,
     reason             |-> finalReason,
     startDate          |-> startDate,
     endDate            |-> endDate,
     numberOfDays       |-> numberOfDays,
     status             |-> "Pending",
     teacherApproved    |-> FALSE,
     adminApproved      |-> FALSE,
     requestedToTeacher |-> IF currentUser.role = "student"
                            THEN teacherToApprove ELSE Null]

\* NewLeave storing the form's teacher field whoever submits
NewLeaveAnyTarget(newLeaveId, finalReason) ==
    [id                 |-> newLeaveId,
     userName           |-> currentUser.username,
     userRole           |-> currentUser.role,
     reason             |-> finalReason,
     startDate          |-> startDate,
     endDate            |-> endDate,
     numberOfDays       |-> numberOfDays,
     status             |-> "Pending",
     teacherApproved    |-> IF currentUser.role = "teacher" THEN TRUE ELSE FALSE,
     adminApproved      |-> FALSE,
     requestedToTeacher |-> teacherToApprove]

NewLeave(newLeaveId, finalReason) ==
    [id                 |-> newLeaveId,
     userName           |-> currentUser.username,
     userRole           |-> currentUser.role,
     reason             |-> finalReason,
     startDate          |-> startDate,
     endDate            |-> endDate,
     numberOfDays       |-> numberOfDays,
     status             |-> "Pending",
     teacherApproved    |-> IF currentUser.role = "teacher" THEN TRUE ELSE FALSE,
     adminApproved      |-> FALSE,
     requestedToTeacher |-> IF currentUser.role = "student"
                            THEN teacherToApprove ELSE Null]

\* MissingField without the test of the student's teacher
MissingFieldNoTeacher(finalReason) ==
    \/ Falsy(finalReason)
    \/ startDate = NoDate
    \/ endDate = NoDate

\* line 143
MissingField(finalReason) ==
    \/ Falsy(finalReason)
    \/ startDate = NoDate
    \/ endDate = NoDate
    \/ (currentUser.role = "student" /\ Falsy(teacherToApprove))

\* BlankOtherReason without the trim
BlankOtherReasonNoTrim == reason = "other" /\ Falsy(otherReason)

\* line 147
BlankOtherReason == reason = "other" /\ Trim(otherReason) = << >>

\* line 151
BadDayCount == numberOfDays <= 0

\* WithNewLeave putting the new request first
WithNewLeaveFirst(prevLeaves, newLeave) == << newLeave >> \o prevLeaves

\* line 176: [...leaves, newLeave]
WithNewLeave(prevLeaves, newLeave) == Append(prevLeaves, newLeave)

\* elapsed: the milliseconds the clock has advanced since it was last read;
\* the new id is the reading, Date.now(), whose decimal digits toString()
\* writes: two ids are equal exactly when the readings are.
\* maxLeaves: the model's bound on the ledger
RequestLeave(elapsed, maxLeaves) ==
    /\ FormVisible
    /\ LET finalReason == IF reason = "other" THEN otherReason ELSE reason
       IN  IF MissingField(finalReason)
           THEN /\ messageBox' = ShowMessageBox("Leave Request Error",
                       << "Please fill in all required leave request fields." >>)
                /\ lastCall' = [Call("requestLeave") EXCEPT !.before = leaves]
                /\ UNCHANGED << leaves, formVars, now >>
           ELSE IF BlankOtherReason
           THEN /\ messageBox' = ShowMessageBox("Leave Request Error",
                       << "Please specify the \"Other Reason\"." >>)
                /\ lastCall' = [Call("requestLeave") EXCEPT !.before = leaves]
                /\ UNCHANGED << leaves, formVars, now >>
           ELSE IF BadDayCount
           THEN /\ messageBox' = ShowMessageBox("Leave Request Error",
                       << "End date must be after or on the start date." >>)
                /\ lastCall' = [Call("requestLeave") EXCEPT !.before = leaves]
                /\ UNCHANGED << leaves, formVars, now >>
           ELSE /\ Len(leaves) < maxLeaves
                /\ now' = now + elapsed
                /\ leaves' = WithNewLeave(leaves, NewLeave(now', finalReason))
                /\ ResetForm
                /\ messageBox' = ShowMessageBox("Success",
                       << "Leave request submitted successfully!" >>)
                /\ lastCall' = [Call("requestLeave") EXCEPT
                                   !.ok = TRUE, !.id = now', !.before = leaves]
    /\ UNCHANGED << currentUser, users >>

---------------------------------------------------------------------------
(* Decisions (lines 189-219)                                               *)

\* UpdatedLeave applied to pending requests only
UpdatedLeaveFromPending(leave, action, approverRole) ==
    IF leave.status # "Pending" THEN leave
    ELSE IF approverRole = "teacher"
    THEN [leave EXCEPT !.teacherApproved = (action = "approve"),
                       !.adminApproved = IF action = "approve" THEN @ ELSE FALSE,
                       !.status = IF action = "approve"
                                  THEN "Approved by Teacher"
                                  ELSE "Rejected by Teacher"]
    ELSE IF approverRole = "admin"
    THEN [leave EXCEPT !.adminApproved = (action = "approve"),
                       !.status = IF action = "approve"
                                  THEN "Approved by Admin"
                                  ELSE "Rejected by Admin"]
    ELSE leave

\* UpdatedLeave leaving alone a request the admin has decided
UpdatedLeaveLocking(leave, action, approverRole) ==
    IF leave.status \in {"Approved by Admin", "Rejected by Admin"} THEN leave
    ELSE IF approverRole = "teacher"
    THEN [leave EXCEPT !.teacherApproved = (action = "approve"),
                       !.adminApproved = IF action = "approve" THEN @ ELSE FALSE,
                       !.status = IF action = "approve"
                                  THEN "Approved by Teacher"
                                  ELSE "Rejected by Teacher"]
    ELSE IF approverRole = "admin"
    THEN [leave EXCEPT !.adminApproved = (action = "approve"),
                       !.status = IF action = "approve"
                                  THEN "Approved by Admin"
                                  ELSE "Rejected by Admin"]
    ELSE leave

\* UpdatedLeave writing the status and not the flags
UpdatedLeaveStatusOnly(leave, action, approverRole) ==
    IF approverRole = "teacher"
    THEN [leave EXCEPT !.status = IF action = "approve"
                                  THEN "Approved by Teacher"
                                  ELSE "Rejected by Teacher"]
    ELSE IF approverRole = "admin"
    THEN [leave EXCEPT !.status = IF action = "approve"
                                  THEN "Approved by Admin"
                                  ELSE "Rejected by Admin"]
    ELSE leave

\* UpdatedLeave without line 202, the reset of the admin's approval
UpdatedLeaveNoCascade(leave, action, approverRole) ==
    IF approverRole = "teacher"
    THEN [leave EXCEPT !.teacherApproved = (action = "approve"),
                       !.status = IF action = "approve"
                                  THEN "Approved by Teacher"
                                  ELSE "Rejected by Teacher"]
    ELSE IF approverRole = "admin"
    THEN [leave EXCEPT !.adminApproved = (action = "approve"),
                       !.status = IF action = "approve"
                                  THEN "Approved by Admin"
                                  ELSE "Rejected by Admin"]
    ELSE leave

\* UpdatedLeave with each stage's reject clearing the other stage's flag
UpdatedLeaveRejectClearsBoth(leave, action, approverRole) ==
    IF approverRole = "teacher"
    THEN IF action = "approve"
         THEN [leave EXCEPT !.teacherApproved = (action = "approve"),
                            !.status = "Approved by Teacher"]
         ELSE [leave EXCEPT !.teacherApproved = (action = "approve"),
                            !.status = "Rejected by Teacher",
                            !.adminApproved = FALSE]
    ELSE IF approverRole = "admin"
    THEN IF action = "approve"
         THEN [leave EXCEPT !.adminApproved = (action = "approve"),
                            !.status = "Approved by Admin"]
         ELSE [leave EXCEPT !.adminApproved = (action = "approve"),
                            !.status = "Rejected by Admin",
                            !.teacherApproved = FALSE]
    ELSE leave

\* lines 193-213: the updated copy of the matched leave
UpdatedLeave(leave, action, approverRole) ==
    IF approverRole = "teacher"
    THEN IF action = "approve"
         THEN [leave EXCEPT !.teacherApproved = (action = "approve"),
                            !.status = "Approved by Teacher"]
         ELSE [leave EXCEPT !.teacherApproved = (action = "approve"),
                            !.status = "Rejected by Teacher",
                            !.adminApproved = FALSE]
    ELSE IF approverRole = "admin"
    THEN IF action = "approve"
         THEN [leave EXCEPT !.adminApproved = (action = "approve"),
                            !.status = "Approved by Admin"]
         ELSE [leave EXCEPT !.adminApproved = (action = "approve"),
                            !.status = "Rejected by Admin"]
    ELSE leave

\* MapLeaves with the comparison of line 192 inverted
MapLeavesInverted(prevLeaves, leaveId, action, approverRole) ==
    [i \in DOMAIN prevLeaves |->
        IF prevLeaves[i].id # leaveId
        THEN UpdatedLeave(prevLeaves[i], action, approverRole)
        ELSE prevLeaves[i]]

\* lines 190-217: prevLeaves.map(...)
MapLeaves(prevLeaves, leaveId, action, approverRole) ==
    [i \in DOMAIN prevLeaves |->
        IF prevLeaves[i].id = leaveId
        THEN UpdatedLeave(prevLeaves[i], action, approverRole)
        ELSE prevLeaves[i]]

UpdateLeaveStatus(leaveId, action, approverRole, via) ==
    /\ leaves' = MapLeaves(leaves, leaveId, action, approverRole)
    /\ messageBox' = ShowMessageBox("Status Updated",
           << "Leave request ",
              IF action = "approve" THEN "approved" ELSE "rejected", "." >>)
    /\ lastCall' = [op |-> "updateLeaveStatus", via |-> via, ok |-> TRUE,
                    id |-> leaveId, action |-> action, role |-> approverRole,
                    name |-> "", before |-> leaves]
    /\ UNCHANGED << currentUser, users, formVars, now >>

\* lines 515, 532-553: the buttons of a row of the teacher's list
TeacherButton(i, action) ==
    /\ currentUser # NoUser
    /\ currentUser.role = "teacher"
    /\ TeacherPending(leaves[i])
    /\ UpdateLeaveStatus(leaves[i].id, action, "teacher", "dashboard")

\* lines 564, 583-614: the buttons of a row of the admin's list
AdminButton(i, action) ==
    /\ currentUser # NoUser
    /\ currentUser.role = "admin"
    /\ AdminPending(leaves[i])
    /\ UpdateLeaveStatus(leaves[i].id, action, "admin", "dashboard")

\* updateLeaveStatus called as a function, with any arguments, whoever is
\* logged in: the handler's own contract, without the lists that gate it
HandlerCall(leaveId, action, approverRole) ==
    /\ currentUser # NoUser
    /\ UpdateLeaveStatus(leaveId, action, approverRole, "call")

\* the logged-in user is the teacher the request l is addressed to
TeacherAuthorized(l) ==
    /\ currentUser.role = "teacher"
    /\ l.userRole = "student"
    /\ l.requestedToTeacher = currentUser.username

\* the request l may be decided by the admin
AdminEligible(l) ==
    \/ l.userRole = "teacher"
    \/ (l.userRole = "student" /\ l.teacherApproved)

\* the logged-in user may take a decision of this stage on the request l
Authorized(l, approverRole) ==
    IF approverRole = "teacher"
    THEN TeacherAuthorized(l)
    ELSE currentUser.role = "admin" /\ AdminEligible(l)

\* updateLeaveStatus called as a function on the i-th request by a user who
\* may decide it, whatever the request's status is
AuthorizedCall(i, action, approverRole) ==
    /\ currentUser # NoUser
    /\ Authorized(leaves[i], approverRole)
    /\ UpdateLeaveStatus(leaves[i].id, action, approverRole, "call")

---------------------------------------------------------------------------
(* Persistence (lines 4-21, 27-35, 55-65)                                  *)

\* JSON texts, by what they denote: null, a string, a number, true or false,
\* an array of texts, an object as the sequence of its members.
JsonNull == << "null" >>

JsonString(s) == << "string", s >>

JsonNumber(n) == << "number", n >>

JsonBoolean(b) == << IF b THEN "true" ELSE "false" >>

JsonArray(items) == << "array", items >>

JsonObject(members) == << "object", members >>

\* what reading a property that the object does not have gives
Undefined == "<undefined>"

\* the value of the member named key of a parsed object
Member(json, key) ==
    LET members == json[2]
        hits == { i \in DOMAIN members : members[i][1] = key }
    IN  IF hits = {} THEN << "undefined" >>
        ELSE members[CHOOSE i \in hits : \A j \in hits : j <= i][2]

\* JSON.stringify of a string or null
JsonOfNullable(s) == IF s = Null THEN JsonNull ELSE JsonString(s)

\* JSON.parse of the text of a string, of null, or of nothing
NullableOfJson(json) ==
    IF json[1] = "null" THEN Null
    ELSE IF json[1] = "string" THEN json[2]
    ELSE Undefined

BooleanOfJson(json) == json[1] = "true"

\* JSON.stringify of currentUser, or of an entry of users
JsonOfUser(user) ==
    IF user = NoUser THEN JsonNull
    ELSE JsonObject(<< << "username", JsonString(user.username) >>,
                       << "password", JsonString(user.password) >>,
                       << "role", JsonString(user.role) >> >>)

UserOfJson(json) ==
    IF json[1] = "null" THEN NoUser
    ELSE [username |-> NullableOfJson(Member(json, "username")),
          password |-> NullableOfJson(Member(json, "password")),
          role     |-> NullableOfJson(Member(json, "role"))]

\* JsonOfLeave leaving out the members whose value is null
JsonOfLeaveWithoutNulls(leave) ==
    JsonObject(
        << << "id", JsonString(leave.id) >>,
           << "userName", JsonString(leave.userName) >>,
           << "userRole", JsonString(leave.userRole) >>,
           << "reason", JsonString(leave.reason) >>,
           << "startDate", JsonString(leave.startDate) >>,
           << "endDate", JsonString(leave.endDate) >>,
           << "numberOfDays", JsonNumber(leave.numberOfDays) >>,
           << "status", JsonString(leave.status) >>,
           << "teacherApproved", JsonBoolean(leave.teacherApproved) >>,
           << "adminApproved", JsonBoolean(leave.adminApproved) >> >>
        \o IF leave.requestedToTeacher = Null THEN << >>
           ELSE << << "requestedToTeacher",
                      JsonString(leave.requestedToTeacher) >> >>)

\* JSON.stringify of an entry of leaves
JsonOfLeave(leave) ==
    JsonObject(
        << << "id", JsonString(leave.id) >>,
           << "userName", JsonString(leave.userName) >>,
           << "userRole", JsonString(leave.userRole) >>,
           << "reason", JsonString(leave.reason) >>,
           << "startDate", JsonString(leave.startDate) >>,
           << "endDate", JsonString(leave.endDate) >>,
           << "numberOfDays", JsonNumber(leave.numberOfDays) >>,
           << "status", JsonString(leave.status) >>,
           << "teacherApproved", JsonBoolean(leave.teacherApproved) >>,
           << "adminApproved", JsonBoolean(leave.adminApproved) >>,
           << "requestedToTeacher", JsonOfNullable(leave.requestedToTeacher) >> >>)

LeaveOfJson(json) ==
    [id                 |-> Member(json, "id")[2],
     userName           |-> Member(json, "userName")[2],
     userRole           |-> Member(json, "userRole")[2],
     reason             |-> Member(json, "reason")[2],
     startDate          |-> Member(json, "startDate")[2],
     endDate            |-> Member(json, "endDate")[2],
     numberOfDays       |-> Member(json, "numberOfDays")[2],
     status             |-> Member(json, "status")[2],
     teacherApproved    |-> BooleanOfJson(Member(json, "teacherApproved")),
     adminApproved      |-> BooleanOfJson(Member(json, "adminApproved")),
     requestedToTeacher |-> NullableOfJson(Member(json, "requestedToTeacher"))]

JsonOfUsers(list) == JsonArray([i \in DOMAIN list |-> JsonOfUser(list[i])])

UsersOfJson(json) == [i \in DOMAIN json[2] |-> UserOfJson(json[2][i])]

JsonOfLeaves(list) == JsonArray([i \in DOMAIN list |-> JsonOfLeave(list[i])])

LeavesOfJson(json) == [i \in DOMAIN json[2] |-> LeaveOfJson(json[2][i])]

\* localStorage.getItem(key) of a key that was never set
NoItem == << "absent" >>

\* lines 4-12; parsed is JSON.parse(item), looked at only if there is an item
GetLocalStorageItem(item, parsed, defaultValue) ==
    IF item # NoItem THEN parsed ELSE defaultValue

\* lines 55-65: the items of the store once this page's effects have run.
\* Each effect runs after the first render and after every render that
\* changed its value, so that, while no other page writes to the store,
\* each item is the text of the current value between two handlers.
Store ==
    [currentUser |-> JsonOfUser(currentUser),
     users       |-> JsonOfUsers(users),
     leaves      |-> JsonOfLeaves(leaves)]

\* lines 27-49, 222: the state of a page is built from the items of the store
Mount(store) ==
    /\ currentUser' = GetLocalStorageItem(store.currentUser,
                           UserOfJson(store.currentUser), NoUser)
    /\ users' = GetLocalStorageItem(store.users, UsersOfJson(store.users), << >>)
    /\ leaves' = GetLocalStorageItem(store.leaves,
                      LeavesOfJson(store.leaves), << >>)
    /\ ResetForm
    /\ messageBox' = InitialMessageBox
    /\ lastCall' = [Call("restart") EXCEPT !.ok = TRUE, !.before = leaves]
    /\ UNCHANGED now

\* The page is loaded again, no other page being open.
Restart == Mount(Store)

---------------------------------------------------------------------------
(* Two pages on one store.  A page reads the store when it is mounted      *)
(* (lines 27-35) and never again: the file registers no listener for the   *)
(* store's changes.  Each effect writes the whole value (lines 55-65).      *)

\* the state of the page in front
ThisTab ==
    [currentUser      |-> currentUser,
     users            |-> users,
     leaves           |-> leaves,
     reason           |-> reason,
     otherReason      |-> otherReason,
     startDate        |-> startDate,
     endDate          |-> endDate,
     numberOfDays     |-> numberOfDays,
     teacherToApprove |-> teacherToApprove,
     messageBox       |-> messageBox]

\* lines 176, 190: the handler of this step called setLeaves, with a new array
LeavesSet ==
    \/ lastCall'.op = "updateLeaveStatus"
    \/ (lastCall'.op = "requestLeave" /\ lastCall'.ok)

\* lines 55-65: the store after the effects of this step, each writing its
\* item if the step changed its value
SavedStore(store) ==
    [currentUser |-> IF currentUser' # currentUser
                     THEN JsonOfUser(currentUser') ELSE store.currentUser,
     users       |-> IF users' # users
                     THEN JsonOfUsers(users') ELSE store.users,
     leaves      |-> IF LeavesSet
                     THEN JsonOfLeaves(leaves') ELSE store.leaves]

\* the effects of a step of the page in front, on the store the pages share;
\* replaced is the ledger item that the step's write replaced, if it wrote one
Saved ==
    IF otherTab.open
    THEN otherTab' = [otherTab EXCEPT
                         !.stored = SavedStore(@),
                         !.replaced = IF LeavesSet THEN otherTab.stored.leaves
                                      ELSE NoItem]
    ELSE UNCHANGED otherTab

\* The address is opened in a second page, which comes in front and is
\* mounted from the store as the first page wrote it.
OpenTab ==
    /\ ~otherTab.open
    /\ Mount(Store)
    /\ otherTab' = [open |-> TRUE, state |-> ThisTab, stored |-> Store,
                    replaced |-> NoItem]

\* The user turns to the other page, which is as it was left.
SwitchTab ==
    /\ otherTab.open
    /\ currentUser' = otherTab.state.currentUser
    /\ users' = otherTab.state.users
    /\ leaves' = otherTab.state.leaves
    /\ reason' = otherTab.state.reason
    /\ otherReason' = otherTab.state.otherReason
    /\ startDate' = otherTab.state.startDate
    /\ endDate' = otherTab.state.endDate
    /\ numberOfDays' = otherTab.state.numberOfDays
    /\ teacherToApprove' = otherTab.state.teacherToApprove
    /\ messageBox' = otherTab.state.messageBox
    /\ otherTab' = [otherTab EXCEPT !.state = ThisTab, !.replaced = NoItem]
    /\ lastCall' = Call("switchTab")
    /\ UNCHANGED now

\* The page in front is loaded again, from the store the pages share; its
\* effects then write back what it read.
ReloadTab ==
    /\ otherTab.open
    /\ Mount(otherTab.stored)
    /\ otherTab' = [otherTab EXCEPT
                        !.stored = [currentUser |-> JsonOfUser(currentUser'),
                                    users       |-> JsonOfUsers(users'),
                                    leaves      |-> JsonOfLeaves(leaves')],
                        !.replaced = NoItem]

---------------------------------------------------------------------------
(* Inputs and specifications                                               *)

\* What the user types and picks: the accounts registered, the passwords
\* tried, the reasons, free texts and days entered, and the milliseconds
\* between two readings of the clock.  Date.now() is the wall clock in whole
\* milliseconds: a reading may equal the one before it (elapsed 0).
Accounts == { << "alice", "student" >>, << "bob", "teacher" >>,
              << "dave", "admin" >> }

FlowInputs ==
    [accounts  |-> Accounts \cup { << "", "student" >> },
     passwords |-> {"pw"},
     dates     |-> {1},
     elapsed   |-> {0, 1},
     ledger    |-> MaxLeaves]

DraftInputs ==
    [accounts  |-> Accounts,
     passwords |-> {"pw"},
     reasons   |-> {"sick", "other"},
     texts     |-> {" ", "flu"},
     dates     |-> {NoDate} \cup Days,
     elapsed   |-> {1},
     ledger    |-> MaxFewLeaves]

\* accounts whose names differ by case only, with different roles
DirectoryInputs ==
    [accounts  |-> { << "alice", "student" >>, << "bob", "teacher" >>,
                     << "Bob", "student" >>, << "BOB", "admin" >>,
                     << "", "student" >> },
     passwords |-> {"pw", ""}]

IdInputs == 1 .. MaxFewLeaves + 1

Authentication(in) ==
    \/ \E acc \in in.accounts, p \in in.passwords :
           HandleRegister(acc[1], p, acc[2])
    \/ \E acc \in in.accounts, p \in in.passwords \cup {"bad"} :
           HandleLogin(acc[1], p)
    \/ HandleLogout

\* the reason of a draft
ReasonFields(in) ==
    \/ \E r \in in.reasons : SetReason(r)
    \/ \E t \in in.texts : SetOtherReason(t)

\* the dates of a draft and the teacher it is addressed to
RequiredFields(in) ==
    \/ \E d \in in.dates : SetStartDate(d)
    \/ \E d \in in.dates : SetEndDate(d)
    \/ \E t \in TeacherOptions : SetTeacherToApprove(t)

Form(in) ==
    \/ ReasonFields(in)
    \/ RequiredFields(in)

Decisions ==
    \/ \E i \in DOMAIN leaves, a \in Actions : TeacherButton(i, a)
    \/ \E i \in DOMAIN leaves, a \in Actions : AdminButton(i, a)

\* The program as its pages drive it, with requests whose reason is the
\* one the form starts with.
Pages(in) ==
    \/ Authentication(in)
    \/ RequiredFields(in)
    \/ \E ms \in in.elapsed : RequestLeave(ms, in.ledger)
    \/ Decisions
    \/ Restart

Next == Pages(FlowInputs) /\ UNCHANGED otherTab

Spec == Init /\ [][Next]_vars

\* The state Spec reaches once the three accounts are registered, in this
\* order, with nobody logged in.
Registered ==
    << [username |-> "alice", password |-> "pw", role |-> "student"],
       [username |-> "bob", password |-> "pw", role |-> "teacher"],
       [username |-> "dave", password |-> "pw", role |-> "admin"] >>

RegisteredInit ==
    /\ currentUser = NoUser
    /\ users = Registered
    /\ leaves = << >>
    /\ reason = "sick"
    /\ otherReason = ""
    /\ startDate = NoDate
    /\ endDate = NoDate
    /\ numberOfDays = 0
    /\ teacherToApprove = ""
    /\ messageBox = ShowMessageBox("Success",
           << "User \"", "dave", "\" registered as a ", "admin",
              ". You can now log in." >>)
    /\ now = 1
    /\ lastCall = [Call("handleRegister") EXCEPT !.ok = TRUE, !.name = "dave"]
    /\ otherTab = OneTab

\* The program from the registered directory, with updateLeaveStatus also
\* called directly, with any arguments.
HandlerNext ==
    /\ \/ Pages([FlowInputs EXCEPT !.ledger = MaxFewLeaves])
       \/ \E id \in IdInputs, a \in Actions, r \in ApproverRoles :
              HandlerCall(id, a, r)
    /\ UNCHANGED otherTab

HandlerSpec == RegisteredInit /\ [][HandlerNext]_vars

\* The program from the registered directory, with updateLeaveStatus also
\* called directly by the users who may decide a request.
EngineNext ==
    /\ \/ Pages([FlowInputs EXCEPT !.ledger = MaxFewLeaves])
       \/ \E i \in DOMAIN leaves, a \in Actions, r \in ApproverRoles :
              AuthorizedCall(i, a, r)
    /\ UNCHANGED otherTab

EngineSpec == RegisteredInit /\ [][EngineNext]_vars

\* Registering, logging in and out, from an empty directory.
DirectoryNext == Authentication(DirectoryInputs) /\ UNCHANGED otherTab

DirectorySpec == Init /\ [][DirectoryNext]_vars

\* Drafting and submitting, from the registered directory: the drafts a user
\* can enter in the request form, submitted by a student or a teacher, a
\* millisecond apart; no decision is taken, so that no id is ever looked up.
DraftNext ==
    /\ \/ Authentication(DraftInputs)
       \/ Form(DraftInputs)
       \/ \E ms \in DraftInputs.elapsed : RequestLeave(ms, DraftInputs.ledger)
    /\ UNCHANGED otherTab

DraftSpec == RegisteredInit /\ [][DraftNext]_vars

\* what is done in two pages: the student and the teacher log in, fill the
\* form and submit a millisecond or more apart, so that no two ids are equal
TabInputs ==
    [accounts  |-> { << "alice", "student" >>, << "bob", "teacher" >> },
     passwords |-> {"pw"},
     dates     |-> {1},
     elapsed   |-> {1},
     ledger    |-> MaxFewLeaves]

\* Two pages on the store of the registered directory: the second is opened,
\* and the users work in one or the other, each step followed by the
\* effects that save what it changed.  The clock is read up to twice per
\* entry the ledger may hold.
TabsNext ==
    \/ /\ \/ \E acc \in TabInputs.accounts, p \in TabInputs.passwords :
                  HandleLogin(acc[1], p)
          \/ RequiredFields(TabInputs)
          \/ \E ms \in TabInputs.elapsed :
                  now <= 2 * TabInputs.ledger /\ RequestLeave(ms, TabInputs.ledger)
          \/ \E i \in DOMAIN leaves, a \in Actions : TeacherButton(i, a)
       /\ Saved
    \/ OpenTab
    \/ SwitchTab
    \/ ReloadTab

TabsSpec == RegisteredInit /\ [][TabsNext]_vars

\* the teacher, logged in, takes a decision on the i-th request
TeacherDecides(i) ==
    /\ i \in DOMAIN leaves
    /\ \E a \in Actions : TeacherButton(i, a)
    /\ UNCHANGED otherTab

\* the admin, logged in, takes a decision on the i-th request
AdminDecides(i) ==
    /\ i \in DOMAIN leaves
    /\ \E a \in Actions : AdminButton(i, a)
    /\ UNCHANGED otherTab

\* the user who is logged in logs out
LogsOut == HandleLogout /\ UNCHANGED otherTab

\* a registered user logs in
LogsIn(authUsername) == HandleLogin(authUsername, "pw") /\ UNCHANGED otherTab

\* The program as its pages drive it, from the registered directory.
AttendedNext ==
    Pages([FlowInputs EXCEPT !.ledger = MaxFewLeaves]) /\ UNCHANGED otherTab

\* The approvers attend to the requests: whoever is logged in logs out in
\* the end, the teacher and the admin log in again and again, and a decision
\* that stays offered is taken (weak fairness on the decisions).
Attendance ==
    /\ WF_vars(LogsOut)
    /\ SF_vars(LogsIn("bob"))
    /\ SF_vars(LogsIn("dave"))
    /\ \A i \in 1 .. MaxFewLeaves :
           WF_vars(TeacherDecides(i)) /\ WF_vars(AdminDecides(i))

\* the teacher or the admin logs out while a decision is offered to them
WalksAway ==
    /\ LogsOut
    /\ \E i \in DOMAIN leaves :
           \/ currentUser.role = "teacher" /\ TeacherPending(leaves[i])
           \/ currentUser.role = "admin" /\ AdminPending(leaves[i])

AttendedSpec == RegisteredInit /\ [][AttendedNext]_vars /\ Attendance

---------------------------------------------------------------------------
(* Properties                                                              *)

\* the last handler that ran was updateLeaveStatus, for this stage
Decided(stage) == lastCall.op = "updateLeaveStatus" /\ lastCall.role = stage

\* the entries the last call's id matched, in the ledger it ran against
Matched == { i \in DOMAIN lastCall.before : lastCall.before[i].id = lastCall.id }

Submitted == lastCall.op = "requestLeave" /\ lastCall.ok

LastLeave == leaves[Len(leaves)]

\* s is empty or holds white space only
IsBlank(s) == \A i \in DOMAIN Chars(s) : Chars(s)[i] \in WhiteSpace

\* C1: after a teacher-stage reject, whatever the request's flags and status
\* were before, the request has teacherApproved = false, adminApproved = false
\* and status "Rejected by Teacher".
C1_TeacherRejectCascades ==
    (Decided("teacher") /\ lastCall.action = "reject") =>
        \A i \in Matched :
            /\ leaves[i].teacherApproved = FALSE
            /\ leaves[i].adminApproved = FALSE
            /\ leaves[i].status = "Rejected by Teacher"

\* C1's case: the teacher rejects a request that was "Approved by Admin" with
\* both flags true.
C1_Witness ==
    /\ Decided("teacher")
    /\ lastCall.action = "reject"
    /\ \E i \in Matched :
          /\ lastCall.before[i].teacherApproved
          /\ lastCall.before[i].adminApproved
          /\ lastCall.before[i].status = "Approved by Admin"
          /\ leaves[i].status = "Rejected by Teacher"

\* C2 as claimed: no request is approved by the admin while it is not approved
\* by the teacher.
C2_Claimed ==
    \A i \in DOMAIN leaves :
        ~(leaves[i].adminApproved /\ ~leaves[i].teacherApproved)

\* the last decision was refused: nothing changed and no success was reported
Refused ==
    /\ leaves = lastCall.before
    /\ messageBox.title # "Status Updated"

\* C3 as claimed: a teacher-stage decision is applied only for the teacher the
\* request is addressed to, and any other one is refused and changes nothing.
C3_Claimed ==
    Decided("teacher") =>
        \A i \in Matched : TeacherAuthorized(lastCall.before[i]) \/ Refused

\* C4 as claimed: an admin-stage decision is applied only by an admin to an
\* eligible request, and any other one is refused and changes nothing.
C4_Claimed ==
    Decided("admin") =>
        \A i \in Matched :
            \/ (currentUser.role = "admin" /\ AdminEligible(lastCall.before[i]))
            \/ Refused

\* C5: the request a successful submit creates is the ledger's new last
\* entry, with status "Pending", adminApproved = false, teacherApproved =
\* (the submitter is a teacher), and the logged-in user's name and role.
C5_CreatedRequest ==
    Submitted =>
        /\ Len(leaves) = Len(lastCall.before) + 1
        /\ LastLeave.status = "Pending"
        /\ LastLeave.adminApproved = FALSE
        /\ LastLeave.teacherApproved = (currentUser.role = "teacher")
        /\ LastLeave.userName = currentUser.username
        /\ LastLeave.userRole = currentUser.role
        /\ \E i \in DOMAIN users :
              /\ users[i].username = LastLeave.userName
              /\ users[i].role = LastLeave.userRole

\* C5's case: a teacher has just submitted a request.
C5_Witness ==
    /\ Submitted
    /\ currentUser.role = "teacher"
    /\ LastLeave.teacherApproved
    /\ LastLeave.status = "Pending"

\* C6 as claimed: no submit of a draft whose end date is before its start date
\* succeeds, so no request with endDate < startDate is ever stored.
C6_Claimed ==
    Submitted => LastLeave.endDate >= LastLeave.startDate

\* C7: whenever both dates are set and end >= start, the day count of the form
\* is (end - start) + 1, which is 1 when they are equal; so is the day count
\* of every stored request.
C7_InclusiveDayCount ==
    /\ (startDate # NoDate /\ endDate # NoDate /\ endDate >= startDate) =>
           numberOfDays = (endDate - startDate) + 1
    /\ \A i \in DOMAIN leaves :
           leaves[i].endDate >= leaves[i].startDate =>
               leaves[i].numberOfDays = (leaves[i].endDate - leaves[i].startDate) + 1

\* C7's case: the form holds an end date after its start date, and a request
\* of a single day is stored.
C7_Witness ==
    /\ startDate # NoDate
    /\ endDate > startDate
    /\ numberOfDays = 2
    /\ \E i \in DOMAIN leaves :
          /\ leaves[i].startDate = leaves[i].endDate
          /\ leaves[i].numberOfDays = 1

\* C8: a submit with the selector on "other" and a free text that is empty or
\* white space only fails with the "Leave Request Error" box and leaves the
\* ledger as it was.
C8_BlankOtherReasonFails ==
    [][(lastCall'.op = "requestLeave" /\ reason = "other" /\ IsBlank(otherReason)) =>
           /\ leaves' = leaves
           /\ lastCall'.ok = FALSE
           /\ messageBox'.title = "Leave Request Error"]_vars

\* C8's case: a draft that is complete but for a free text of one space has
\* been submitted and refused.
C8_Witness ==
    /\ lastCall.op = "requestLeave"
    /\ ~lastCall.ok
    /\ reason = "other"
    /\ otherReason = " "
    /\ startDate # NoDate
    /\ endDate # NoDate
    /\ leaves = lastCall.before
    /\ messageBox.message = << "Please specify the \"Other Reason\"." >>

Unmatched == lastCall.op = "updateLeaveStatus" /\ Matched = {}

C11_Claimed ==
    \A i, j \in DOMAIN leaves : i # j => leaves[i].id # leaves[j].id

\* C12: after a successful submit the ledger is the ledger it ran against,
\* entry for entry, with one more entry at its end.
C12_SubmitAppendsOne ==
    Submitted =>
        /\ Len(leaves) = Len(lastCall.before) + 1
        /\ SubSeq(leaves, 1, Len(leaves) - 1) = lastCall.before
        /\ LastLeave.id = lastCall.id

\* C12's case: a request has been submitted to a ledger that held a decided
\* request, which is still there with its flags and status.
C12_Witness ==
    /\ Submitted
    /\ lastCall.before # << >>
    /\ leaves[1].status = "Approved by Teacher"
    /\ leaves[1].teacherApproved
    /\ leaves[1] = lastCall.before[1]

\* the fields of a request that no handler writes after its creation
Identity(l) ==
    << l.id, l.userName, l.userRole, l.reason, l.startDate, l.endDate,
       l.numberOfDays, l.requestedToTeacher >>

\* C13: no step of the program removes or moves an entry of the ledger: every
\* entry is still at its position after the step, and the ledger is at least
\* as long as it was.
C13_AppendOnly ==
    [][/\ Len(leaves') >= Len(leaves)
       /\ \A i \in DOMAIN leaves : Identity(leaves'[i]) = Identity(leaves[i])]_vars

\* C13's case: after two submissions and a decision, a user has logged out
\* and the ledger still holds both requests.
C13_Witness ==
    /\ lastCall.op = "handleLogout"
    /\ Len(leaves) >= 2
    /\ leaves[1].status # "Pending"
    /\ leaves[1].userName # leaves[2].userName

\* the flags and status a decision of this stage writes
Overwritten(l, action, approverRole) ==
    IF approverRole = "teacher"
    THEN /\ l.teacherApproved = (action = "approve")
         /\ l.status = IF action = "approve" THEN "Approved by Teacher"
                                              ELSE "Rejected by Teacher"
    ELSE /\ l.adminApproved = (action = "approve")
         /\ l.status = IF action = "approve" THEN "Approved by Admin"
                                              ELSE "Rejected by Admin"

C16_ViewsHoldOnlyTheirRequests ==
    currentUser # NoUser =>
        \A i \in DOMAIN leaves :
            LET l == leaves[i]
            IN  /\ (FormVisible /\ MyRequests(l)) =>
                       /\ l.userName = currentUser.username
                       /\ l.userRole = currentUser.role
                /\ (currentUser.role = "teacher" /\ TeacherPending(l)) =>
                       /\ l.userRole = "student"
                       /\ l.status = "Pending"
                       /\ l.requestedToTeacher = currentUser.username
                /\ (currentUser.role = "admin" /\ AdminPending(l)) =>
                       /\ l.status \notin {"Approved by Admin", "Rejected by Admin"}
                       /\ \/ l.userRole = "teacher"
                          \/ (l.userRole = "student" /\ l.teacherApproved)

\* C16's case: a teacher is logged in, with a request in the list and a
\* pending request of the teacher's own, which is not in the list but is in
\* "My Leave Requests".
C16_Witness ==
    /\ currentUser.role = "teacher"
    /\ \E i, j \in DOMAIN leaves :
          /\ TeacherPending(leaves[i])
          /\ ~TeacherPending(leaves[j])
          /\ leaves[j].status = "Pending"
          /\ MyRequests(leaves[j])
          /\ ~MyRequests(leaves[i])

\* C17: a submit that fails validation leaves the ledger as it was; after a
\* decision every entry is either as it was, or has all the fields the
\* decision writes written and the other ones as they were.
C17_NoPartialEffect ==
    /\ (lastCall.op = "requestLeave" /\ ~lastCall.ok) =>
           /\ leaves = lastCall.before
           /\ messageBox.title = "Leave Request Error"
    /\ lastCall.op = "updateLeaveStatus" =>
           /\ DOMAIN leaves = DOMAIN lastCall.before
           /\ \A i \in DOMAIN leaves :
                  LET was == lastCall.before[i]
                      is == leaves[i]
                  IN  \/ is = was
                      \/ /\ Identity(is) = Identity(was)
                         /\ Overwritten(is, lastCall.action, lastCall.role)
                         /\ IF lastCall.role = "admin"
                            THEN is.teacherApproved = was.teacherApproved
                            ELSE is.adminApproved =
                                    IF lastCall.action = "reject"
                                    THEN FALSE ELSE was.adminApproved

\* C17's case: a submit has failed validation on a ledger that holds a
\* decided request.
C17_Witness ==
    /\ lastCall.op = "requestLeave"
    /\ ~lastCall.ok
    /\ leaves # << >>
    /\ leaves[1].status = "Rejected by Teacher"
    /\ leaves = lastCall.before

C19_UniqueNamesFixedRoles ==
    [][/\ \A i, j \in DOMAIN users' :
              i # j => ToLowerCase(users'[i].username) # ToLowerCase(users'[j].username)
       /\ \A i \in DOMAIN users : users'[i] = users[i]
       /\ ( /\ lastCall'.op = "handleRegister"
            /\ \E i \in DOMAIN users :
                   ToLowerCase(users[i].username) = ToLowerCase(lastCall'.name) ) =>
               /\ users' = users
               /\ lastCall'.ok = FALSE
               /\ messageBox'.title = "Registration Error"]_vars

\* C19's case: with bob registered as a teacher, the registration of Bob as
\* a student has been refused.
C19_Witness ==
    /\ lastCall.op = "handleRegister"
    /\ lastCall.name = "Bob"
    /\ ~lastCall.ok
    /\ \E i \in DOMAIN users :
          users[i].username = "bob" /\ users[i].role = "teacher"
    /\ \A i \in DOMAIN users : users[i].username # "Bob"
    /\ messageBox.message =
           << "Username already exists. Please choose a different one." >>

\* C20 as claimed: the reason is validated first, so that a submit with the
\* selector on "other" and a blank free text is reported with the "other
\* reason" error, whatever the other fields hold.
C20_Claimed ==
    ( /\ lastCall.op = "requestLeave"
      /\ ~lastCall.ok
      /\ reason = "other"
      /\ IsBlank(otherReason) ) =>
        messageBox = ShowMessageBox("Leave Request Error",
                         << "Please specify the \"Other Reason\"." >>)

\* C21: an admin-stage decision, approve or reject, leaves teacherApproved
\* and the teacher the request is addressed to as they were, in every entry
\* of the ledger; a teacher-stage approve leaves adminApproved as it was.
C21_StagesKeepEachOthersFlag ==
    lastCall.op = "updateLeaveStatus" =>
        /\ Len(leaves) = Len(lastCall.before)
        /\ \A i \in DOMAIN leaves :
               /\ lastCall.role = "admin" =>
                      /\ leaves[i].teacherApproved
                             = lastCall.before[i].teacherApproved
                      /\ leaves[i].requestedToTeacher
                             = lastCall.before[i].requestedToTeacher
               /\ (lastCall.role = "teacher" /\ lastCall.action = "approve") =>
                      leaves[i].adminApproved = lastCall.before[i].adminApproved

\* the admin has rejected a student's request that its teacher had approved:
\* the teacher's approval and the teacher's name are still there
C21_Witness ==
    /\ Decided("admin")
    /\ lastCall.action = "reject"
    /\ \E i \in Matched :
           /\ lastCall.before[i].userRole = "student"
           /\ lastCall.before[i].teacherApproved
           /\ leaves[i].status = "Rejected by Admin"
           /\ leaves[i].teacherApproved
           /\ leaves[i].requestedToTeacher = "bob"

\* C22: a decision changes one entry of the ledger, the one whose id was
\* given: every other entry is as it was, and in that entry the id, the
\* requester and the requester's role, the reason, the dates, the number of
\* days and the teacher it is addressed to are as they were.
C22_Claimed ==
    lastCall.op = "updateLeaveStatus" =>
        /\ Len(leaves) = Len(lastCall.before)
        /\ \A i \in DOMAIN leaves \ Matched : leaves[i] = lastCall.before[i]
        /\ \A i \in Matched : Identity(leaves[i]) = Identity(lastCall.before[i])
        /\ Cardinality({ i \in DOMAIN leaves : leaves[i] # lastCall.before[i] }) <= 1

\* C23: operations issued from two pages that read the same ledger are
\* applied one after the other: when a page's handler writes the ledger,
\* every request of the ledger it replaces is still there, and is as it was
\* unless the handler was given its id.  No submitted request and no
\* decision is lost.
C23_Claimed ==
    (otherTab.open /\ otherTab.replaced # NoItem) =>
        LET old == LeavesOfJson(otherTab.replaced)
            new == LeavesOfJson(otherTab.stored.leaves)
        IN  \A i \in DOMAIN old :
                \E j \in DOMAIN new :
                    /\ Identity(new[j]) = Identity(old[i])
                    /\ new[j].id # lastCall.id => new[j] = old[i]

\* C24: in every reachable state a request submitted by a teacher has
\* teacherApproved = true: it is true at creation and no decision resets it.
C24_Claimed ==
    \A i \in DOMAIN leaves :
        leaves[i].userRole = "teacher" => leaves[i].teacherApproved

\* C25: in every reachable state a student's request names the teacher it
\* is addressed to, a non-empty name of a registered teacher, and the
\* request of anyone else has null there.
C25_TargetIffStudent ==
    \A i \in DOMAIN leaves :
        IF leaves[i].userRole = "student"
        THEN /\ leaves[i].requestedToTeacher # Null
             /\ ~Falsy(leaves[i].requestedToTeacher)
             /\ leaves[i].requestedToTeacher \in teachers
        ELSE leaves[i].requestedToTeacher = Null

\* the page has been loaded again with a ledger that holds a student's
\* request addressed to bob and a teacher's request, addressed to nobody
C25_Witness ==
    /\ lastCall.op = "restart"
    /\ \E i, j \in DOMAIN leaves :
           /\ leaves[i].userRole = "student"
           /\ leaves[i].requestedToTeacher = "bob"
           /\ leaves[j].userRole = "teacher"
           /\ leaves[j].requestedToTeacher = Null

\* C26: every request of the ledger has endDate >= startDate and a
\* numberOfDays that is at least 1 and is the inclusive count of the days
\* from its startDate to its endDate.
C26_Claimed ==
    \A i \in DOMAIN leaves :
        /\ leaves[i].endDate >= leaves[i].startDate
        /\ leaves[i].numberOfDays >= 1
        /\ leaves[i].numberOfDays = leaves[i].endDate - leaves[i].startDate + 1

\* C27: a request is created Pending and its status changes only when a
\* decision is taken; a status other than Pending never becomes Pending
\* again; a student's request enters "Approved by Admin" or "Rejected by
\* Admin" only from a state in which its teacherApproved is true.
C27_Claimed ==
    [][/\ \A i \in DOMAIN leaves' \ DOMAIN leaves :
              leaves'[i].status = "Pending"
       /\ \A i \in DOMAIN leaves \cap DOMAIN leaves' :
              /\ leaves'[i].status # leaves[i].status =>
                     lastCall'.op = "updateLeaveStatus"
              /\ leaves[i].status # "Pending" => leaves'[i].status # "Pending"
              /\ ( /\ leaves[i].userRole = "student"
                   /\ leaves'[i].status \in {"Approved by Admin",
                                              "Rejected by Admin"}
                   /\ leaves'[i].status # leaves[i].status )
                     => leaves[i].teacherApproved]_vars

\* C28: in every reachable state a request has adminApproved = true exactly
\* when its status is "Approved by Admin"; a request "Rejected by Teacher"
\* has both flags false; a Pending request has adminApproved = false.
C28_Claimed ==
    \A i \in DOMAIN leaves :
        /\ leaves[i].adminApproved <=> leaves[i].status = "Approved by Admin"
        /\ leaves[i].status = "Rejected by Teacher" =>
               (~leaves[i].teacherApproved /\ ~leaves[i].adminApproved)
        /\ leaves[i].status = "Pending" => ~leaves[i].adminApproved

\* C29: in every reachable state no request is both in the pending list of
\* a teacher and in the pending list of the admin; a student's request is in
\* the admin's list only once it has left Pending with teacherApproved true.
C29_ListsAreDisjoint ==
    \A i \in DOMAIN leaves :
        /\ \A t \in teachers :
               ~( /\ leaves[i].userRole = "student"
                  /\ Includes(leaves[i].status, "Pending")
                  /\ leaves[i].requestedToTeacher = t
                  /\ AdminPending(leaves[i]) )
        /\ (currentUser # NoUser /\ currentUser.role = "teacher") =>
               ~(TeacherPending(leaves[i]) /\ AdminPending(leaves[i]))
        /\ (leaves[i].userRole = "student" /\ AdminPending(leaves[i])) =>
               (leaves[i].status # "Pending" /\ leaves[i].teacherApproved)

\* bob, logged in, has one student's request in his list, which the admin's
\* list does not show, and has approved another, which is in the admin's
\* list and no longer in his
C29_Witness ==
    /\ currentUser # NoUser
    /\ currentUser.username = "bob"
    /\ \E i, j \in DOMAIN leaves :
           /\ TeacherPending(leaves[i])
           /\ ~AdminPending(leaves[i])
           /\ leaves[j].userRole = "student"
           /\ leaves[j].status = "Approved by Teacher"
           /\ AdminPending(leaves[j])
           /\ ~TeacherPending(leaves[j])

\* C30: every entry of the ledger was submitted by a student or a teacher,
\* never by an admin; and a request that no decision has touched is either a
\* student's, in the list of the teacher it names, or in the admin's list.
C30_NoAdminRequest ==
    \A i \in DOMAIN leaves :
        /\ leaves[i].userRole \in {"student", "teacher"}
        /\ leaves[i].status = "Pending" =>
               \/ /\ leaves[i].userRole = "student"
                  /\ leaves[i].requestedToTeacher \in teachers
               \/ AdminPending(leaves[i])

\* the admin is logged in, is shown no form, and the ledger holds a
\* student's request and a teacher's
C30_Witness ==
    /\ currentUser # NoUser
    /\ currentUser.role = "admin"
    /\ ~FormVisible
    /\ \E i, j \in DOMAIN leaves :
           /\ leaves[i].userRole = "student"
           /\ leaves[j].userRole = "teacher"

\* C31: through the buttons of the dashboard a request receives at most one
\* decision of the teacher stage and at most one of the admin stage: no
\* teacher-stage decision reaches a request that a teacher has decided, no
\* admin-stage decision reaches one whose status is the admin's; and no
\* button is shown for a student's request "Rejected by Teacher" or for a
\* request whose status is the admin's.
C31_Claimed ==
    /\ (lastCall.op = "updateLeaveStatus" /\ lastCall.via = "dashboard") =>
           \A i \in Matched :
               /\ lastCall.role = "teacher" =>
                      lastCall.before[i].status
                          \notin {"Approved by Teacher", "Rejected by Teacher"}
               /\ lastCall.role = "admin" =>
                      lastCall.before[i].status
                          \notin {"Approved by Admin", "Rejected by Admin"}
    /\ \A i \in DOMAIN leaves :
           ( \/ ( /\ leaves[i].userRole = "student"
                  /\ leaves[i].status = "Rejected by Teacher" )
             \/ leaves[i].status \in {"Approved by Admin", "Rejected by Admin"} )
           => /\ ~AdminPending(leaves[i])
              /\ (currentUser # NoUser /\ currentUser.role = "teacher") =>
                     ~TeacherPending(leaves[i])

\* the statuses that end a request's course
Settled == {"Rejected by Teacher", "Approved by Admin", "Rejected by Admin"}

\* C32: when the teacher and the admin keep logging in and, from some time
\* on, do not log out while a decision is offered to them, under weak
\* fairness on the decisions of the dashboard, every request of the ledger
\* reaches the status "Rejected by Teacher", "Approved by Admin" or
\* "Rejected by Admin": none stays Pending or "Approved by Teacher" for ever.
C32_EveryRequestSettles ==
    (<>[][~WalksAway]_vars) =>
        \A i \in 1 .. MaxFewLeaves :
            (i \in DOMAIN leaves) ~>
                (i \in DOMAIN leaves /\ leaves[i].status \in Settled)

\* the admin has just decided, with a button of the dashboard, a student's
\* request that its teacher had approved: the request is settled
C32_Witness ==
    /\ Decided("admin")
    /\ lastCall.via = "dashboard"
    /\ \E i \in Matched :
           /\ lastCall.before[i].userRole = "student"
           /\ lastCall.before[i].status = "Approved by Teacher"
           /\ leaves[i].status \in Settled

=============================================================================
